---- MODULE Spec2Model ----
(***************************************************************************)
(* HealthyCity: a FastAPI analytics gateway (src/main.py) and a Streamlit  *)
(* dashboard (src/app.py) that calls it.                                   *)
(*                                                                         *)
(* Python values are modelled as follows.  A dict is a record, a str is    *)
(* the record [str |-> <<fragments>>] whose fragments concatenate to the   *)
(* text, a list that may stand where a dict or None may is the record      *)
(* [list |-> <<items>>] (the geocoder's list is a plain sequence), None is *)
(* the record None.  Floats are fixed point integers: NDVI and percentages *)
(* in hundredths, coordinates in whole degrees.                            *)
(***************************************************************************)
EXTENDS Integers, Sequences, FiniteSets

VARIABLES
    OPENWEATHER_API_KEY,   \* main.py:12   TRUE iff the variable is set (truthy)
    GOOGLE_CLOUD_PROJECT,  \* main.py:13   TRUE iff the variable is set (truthy)
    ee_initialized,        \* main.py:28-36 TRUE iff ee.Initialize returned
    startup_log,           \* main.py:32/34 what the startup block printed
    served,                \* the exchange the server handled for the last script run, if any
    city,                  \* app.py:52 st.session_state.city
    analysis_type,         \* app.py:54 st.session_state.analysis_type (the radio's value)
    map_data,              \* app.py:56 st.session_state.map_data
    metrics,               \* app.py:58 st.session_state.metrics
    error,                 \* app.py:60 st.session_state.error
    page,                  \* what the last script run rendered (app.py:102-160)
    pending,               \* what the requests.get a run is blocked in will do (app.py:35)
    data,                  \* app.py:90 the script's variable data, None while unset
    pc,                    \* the line the run in progress executes next, "done" when none
    run                    \* the last script run: its event, its inputs, what it did

vars == <<OPENWEATHER_API_KEY, GOOGLE_CLOUD_PROJECT, ee_initialized, startup_log,
          served, city, analysis_type, map_data, metrics, error, page, pending, data,
          pc, run>>

config == <<OPENWEATHER_API_KEY, GOOGLE_CLOUD_PROJECT, ee_initialized, startup_log>>
session == <<city, analysis_type, map_data, metrics, error>>

----------------------------------------------------------------------------
(* Python values *)

None == [py_none |-> TRUE]

Str(parts) == [str |-> parts]

EmptyDict == [k \in {} |-> None]

\* truthiness of a str or None
TruthyStr(s) == s # None /\ s.str # <<>>

\* a list is the record [list |-> <<items>>]
List(items) == [list |-> items]

IsList(x) == DOMAIN x = {"list"}

\* a number that is an item of a list
Num(n) == [num |-> n]

\* 'key in d' for the str key of a dict, or for a str among the items of a list
In(key, d) ==
    IF IsList(d)
    THEN \E i \in 1..Len(d.list) : d.list[i] = Str(<<key>>)
    ELSE key \in DOMAIN d

\* truthiness of a dict, a list or None
TruthyDict(d) == d # None /\ (IF IsList(d) THEN d.list # <<>> ELSE DOMAIN d # {})

\* dict.get(key, default)
Get(d, key, default) == IF key \in DOMAIN d THEN d[key] ELSE default

----------------------------------------------------------------------------
(* Inputs *)

\* city names a request or the form can carry; "" is the empty text
Cities == {"", "paris", "atlantis"}

\* str.title() on the city names of the model
Title(c) == CASE c = "paris" -> "Paris"
              [] c = "atlantis" -> "Atlantis"
              [] OTHER -> c

\* the radio's options, app.py:77
AnalysisTypes == {"Green Cover", "Heat Map", "Flood Risk", "Air Quality", "Report Card"}

Endpoints == {"green", "heatmap"}

\* what requests.get(geo_url) does in get_city_coords: it raises (transport
\* failure) or returns a response with a status code and a body
GeoData == { <<>>,
             <<[lat |-> 48, lon |-> 2]>>,
             <<[name |-> "Paris"]>> }

GeoReplies ==
    {[raises |-> TRUE, status_code |-> 0, json_ok |-> FALSE, data |-> <<>>]}
    \cup {[raises |-> FALSE, status_code |-> 401, json_ok |-> TRUE, data |-> <<>>]}
    \cup {[raises |-> FALSE, status_code |-> 200, json_ok |-> FALSE, data |-> <<>>]}
    \cup {[raises |-> FALSE, status_code |-> 200, json_ok |-> TRUE, data |-> d] : d \in GeoData}

\* the earth-observation collaborator for one request: the service is
\* unavailable, or the filtered collection is empty, or its first image has no
\* valid pixel in the region, or the region mean is v
EoStates ==
    {[scene |-> s, v |-> 0] : s \in {"unavailable", "empty", "masked"}}
    \cup {[scene |-> "clear", v |-> x] : x \in {0, 35}}

----------------------------------------------------------------------------
(* Server, src/main.py *)

\* a raised HTTPException(status_code, detail)
HTTPException(status, detail, geo_called) ==
    [raised |-> "HTTPException", status_code |-> status, detail |-> detail,
     lat |-> 0, lon |-> 0, geo_called |-> geo_called]

\* any other exception raised inside get_city_coords
Raised(class, text) ==
    [raised |-> class, status_code |-> 0, detail |-> Str(<<text>>),
     lat |-> 0, lon |-> 0, geo_called |-> TRUE]

\* get_city_coords without "if not data": data[0] raises on an empty list
get_city_coords_no_empty_check(city_name, geo) ==
    IF ~OPENWEATHER_API_KEY
    THEN HTTPException(500, Str(<<"OpenWeatherMap API key is not configured on the server.">>), FALSE)
    ELSE IF geo.raises
    THEN Raised("ConnectionError", "connection failed")
    ELSE IF geo.status_code # 200
    THEN HTTPException(500, Str(<<"Failed to connect to Geocoding service.">>), TRUE)
    ELSE IF ~geo.json_ok
    THEN Raised("JSONDecodeError", "Expecting value")
    ELSE IF geo.data = <<>>
    THEN Raised("IndexError", "list index out of range")
    ELSE IF ~({"lat", "lon"} \subseteq DOMAIN geo.data[1])
    THEN Raised("KeyError", "'lat'")
    ELSE [raised |-> "none", status_code |-> 0, detail |-> Str(<<>>),
          lat |-> geo.data[1].lat, lon |-> geo.data[1].lon, geo_called |-> TRUE]

\* get_city_coords, main.py:41-54.  geo is what requests.get(geo_url) does.
get_city_coords(city_name, geo) ==
    IF ~OPENWEATHER_API_KEY
    THEN HTTPException(500, Str(<<"OpenWeatherMap API key is not configured on the server.">>), FALSE)
    ELSE IF geo.raises
    THEN Raised("ConnectionError", "connection failed")
    ELSE IF geo.status_code # 200
    THEN HTTPException(500, Str(<<"Failed to connect to Geocoding service.">>), TRUE)
    ELSE IF ~geo.json_ok
    THEN Raised("JSONDecodeError", "Expecting value")
    ELSE IF geo.data = <<>>
    THEN HTTPException(404, Str(<<"City '", city_name, "' not found.">>), TRUE)
    ELSE IF ~({"lat", "lon"} \subseteq DOMAIN geo.data[1])
    THEN Raised("KeyError", "'lat'")
    ELSE [raised |-> "none", status_code |-> 0, detail |-> Str(<<>>),
          lat |-> geo.data[1].lat, lon |-> geo.data[1].lon, geo_called |-> TRUE]

\* The Earth Engine expression of an endpoint, from ee.Geometry.Point to
\* stats.get(band).getInfo(): main.py:72-96 and main.py:123-149.  The library
\* raises when it was not initialized or the service fails; the first image of
\* an empty collection is null, and the band arithmetic on a null image makes
\* getInfo raise; a region without a valid pixel reduces to None.
ee_getInfo(eo) ==
    IF ~ee_initialized
    THEN [raised |-> TRUE, is_none |-> FALSE, value |-> 0,
          text |-> "Earth Engine client library not initialized."]
    ELSE IF eo.scene = "unavailable"
    THEN [raised |-> TRUE, is_none |-> FALSE, value |-> 0,
          text |-> "Computation timed out."]
    ELSE IF eo.scene = "empty"
    THEN [raised |-> TRUE, is_none |-> FALSE, value |-> 0,
          text |-> "Parameter 'input' is required."]
    ELSE IF eo.scene = "masked"
    THEN [raised |-> FALSE, is_none |-> TRUE, value |-> 0, text |-> ""]
    ELSE [raised |-> FALSE, is_none |-> FALSE, value |-> eo.v, text |-> ""]

\* a response of the server: FastAPI turns a raised HTTPException into
\* {"detail": detail} with its status code
ErrorResponse(status, detail, geo_called, ee_called) ==
    [status_code |-> status, body |-> [detail |-> detail],
     geo_called |-> geo_called, ee_called |-> ee_called]

OkResponse(body) ==
    [status_code |-> 200, body |-> body, geo_called |-> TRUE, ee_called |-> TRUE]

\* main.py:101, on fixed point hundredths: (avg_ndvi + 1) * 50
green_cover_percentage(avg_ndvi) == (avg_ndvi + 100) * 50

\* the 200 bodies, main.py:103-109 and main.py:153-158
green_body(c, coords, avg_ndvi) ==
    [city |-> Title(c),
     location |-> [lat |-> coords.lat, lon |-> coords.lon],
     avg_ndvi |-> avg_ndvi,
     green_cover_percentage |-> green_cover_percentage(avg_ndvi),
     data_source |-> "Copernicus Sentinel-2"]

heat_body(c, coords, avg_lst_celsius) ==
    [city |-> Title(c),
     location |-> [lat |-> coords.lat, lon |-> coords.lon],
     avg_lst_celsius |-> avg_lst_celsius,
     data_source |-> "USGS Landsat 8"]

\* the 200 body of an endpoint
ok_body(endpoint, c, coords, value) ==
    IF endpoint = "green" THEN green_body(c, coords, value) ELSE heat_body(c, coords, value)

\* the band an endpoint reduces, as its 404 message names it (main.py:98, 151)
band(endpoint) == IF endpoint = "green" THEN "NDVI" ELSE "LST"

\* The body both handlers share, main.py:70-113 and main.py:121-162:
\* try: coordinates, Earth Engine expression, None check, result
\* except HTTPException: re-raise; except Exception: HTTPException(500).
Handler(endpoint, c, geo, eo) ==
    LET coords == get_city_coords(c, geo) IN
    IF coords.raised = "HTTPException"
    THEN ErrorResponse(coords.status_code, coords.detail, coords.geo_called, FALSE)
    ELSE IF coords.raised # "none"
    THEN ErrorResponse(500,
             Str(<<"An error occurred with Google Earth Engine: ">> \o coords.detail.str),
             coords.geo_called, FALSE)
    ELSE LET stat == ee_getInfo(eo) IN
         IF stat.raised
         THEN ErrorResponse(500,
                  Str(<<"An error occurred with Google Earth Engine: ", stat.text>>),
                  TRUE, TRUE)
         ELSE IF stat.is_none
         THEN ErrorResponse(404,
                  Str(<<"Could not compute ", band(endpoint), " for ", c,
                        ". No clear satellite imagery might be available.">>),
                  TRUE, TRUE)
         ELSE OkResponse(ok_body(endpoint, c, coords, stat.value))

\* get_green_cover, main.py:64-113
get_green_cover(c, geo, eo) == Handler("green", c, geo, eo)

\* get_heat_map, main.py:116-162
get_heat_map(c, geo, eo) == Handler("heatmap", c, geo, eo)

\* The routes /city/{city}/green and /city/{city}/heatmap (main.py:64, 116):
\* a path parameter matches one non-empty segment, so an empty city matches
\* no route and the framework answers 404 without running a handler; so
\* does any other last segment.
Route(endpoint, c, geo, eo) ==
    IF c = "" \/ endpoint \notin Endpoints
    THEN ErrorResponse(404, Str(<<"Not Found">>), FALSE, FALSE)
    ELSE IF endpoint = "green"
    THEN get_green_cover(c, geo, eo)
    ELSE get_heat_map(c, geo, eo)

\* the exchange the server keeps no trace of, recorded for the properties
Exchange(endpoint, c, geo, eo) ==
    [endpoint |-> endpoint, city |-> c, geo |-> geo, eo |-> eo,
     response |-> Route(endpoint, c, geo, eo)]

NoExchange ==
    [endpoint |-> "none", city |-> "", geo |-> None, eo |-> None, response |-> None]

----------------------------------------------------------------------------
(* Client, src/app.py *)

\* endpoint_map with an entry for "Flood Risk"
endpoint_map_with_flood_risk ==
    [kind \in {"Green Cover", "Heat Map", "Flood Risk"} |->
        IF kind = "Green Cover" THEN Str(<<"green">>)
        ELSE IF kind = "Heat Map" THEN Str(<<"heatmap">>)
        ELSE Str(<<"flood">>)]

\* endpoint_map, app.py:24-27: a dict with two entries
endpoint_map ==
    [kind \in {"Green Cover", "Heat Map"} |->
        IF kind = "Green Cover" THEN Str(<<"green">>) ELSE Str(<<"heatmap">>)]

\* the kinds whose page is built, app.py:102-112
HasPage(kind) == kind \in {"Green Cover", "Heat Map"}

\* the classes the clause "except requests.exceptions.RequestException"
\* catches, among those requests.get, raise_for_status and response.json raise
RequestException == {"ConnectionError", "Timeout", "HTTPError", "JSONDecodeError"}

\* Response.__bool__ is Response.ok: no 4xx or 5xx status
ResponseOk(status_code) == ~(400 <= status_code /\ status_code < 600)

\* what requests.get(url, timeout=120) does for the client: a transport
\* failure, or a 200 answer whose body is not JSON, is the JSON null or a
\* JSON list, or the answer of the server
Transports == {"refused", "timeout", "garbled", "null", "empty_list", "list",
               "error_list", "ok"}

Net(transport, response) ==
    CASE transport = "refused" ->
           [raises |-> "ConnectionError", status_code |-> 0, json_ok |-> FALSE, json |-> EmptyDict]
      [] transport = "timeout" ->
           [raises |-> "Timeout", status_code |-> 0, json_ok |-> FALSE, json |-> EmptyDict]
      [] transport = "garbled" ->
           [raises |-> "none", status_code |-> 200, json_ok |-> FALSE, json |-> EmptyDict]
      [] transport = "null" ->
           [raises |-> "none", status_code |-> 200, json_ok |-> TRUE, json |-> None]
      [] transport = "empty_list" ->
           [raises |-> "none", status_code |-> 200, json_ok |-> TRUE, json |-> List(<<>>)]
      [] transport = "list" ->
           [raises |-> "none", status_code |-> 200, json_ok |-> TRUE, json |-> List(<<Num(0)>>)]
      [] transport = "error_list" ->
           [raises |-> "none", status_code |-> 200, json_ok |-> TRUE,
            json |-> List(<<Str(<<"error">>)>>)]
      [] OTHER ->
           [raises |-> "none", status_code |-> response.status_code, json_ok |-> TRUE,
            json |-> response.body]

\* the try block of get_city_data, app.py:33-37: the exception it raises
\* ("none" when it returns response.json())
TryRaises(net) ==
    IF net.raises # "none" THEN net.raises
    ELSE IF ~ResponseOk(net.status_code) THEN "HTTPError"
    ELSE IF ~net.json_ok THEN "JSONDecodeError"
    ELSE "none"

\* str(e) of the exception the third except clause caught
StrOfException(exc, net) ==
    IF exc = "HTTPError"
    THEN IF net.status_code < 500
         THEN Str(<<"4xx Client Error for url">>)
         ELSE Str(<<"5xx Server Error for url">>)
    ELSE Str(<<"Expecting value">>)

\* app.py:44: e.response.json() if e.response else {}.  Only an HTTPError
\* carries a response, and the response is tested for truth.
error_data(exc, net) ==
    IF exc = "HTTPError" /\ ResponseOk(net.status_code) /\ net.json_ok
    THEN net.json
    ELSE EmptyDict

\* get_city_data, app.py:19-46.  net is what requests.get does when called.
get_city_data(c, kind, net) ==
    IF ~TruthyStr(Get(endpoint_map, kind, None))
    THEN [data |-> [error |-> Str(<<"Invalid analysis type selected.">>)],
          http_requests |-> 0, uncaught |-> FALSE]
    ELSE LET exc == TryRaises(net) IN
         IF exc = "none"
         THEN [data |-> net.json, http_requests |-> 1, uncaught |-> FALSE]
         ELSE IF exc = "ConnectionError"
         THEN [data |-> [error |-> Str(<<"Connection Error: Could not connect to the backend.">>)],
               http_requests |-> 1, uncaught |-> FALSE]
         ELSE IF exc = "Timeout"
         THEN [data |-> [error |-> Str(<<"The request to the backend timed out.">>)],
               http_requests |-> 1, uncaught |-> FALSE]
         ELSE IF exc \in RequestException
         THEN LET detail == Get(error_data(exc, net), "detail", StrOfException(exc, net))
              IN [data |-> [error |-> Str(<<"API Error: ">> \o detail.str)],
                  http_requests |-> 1, uncaught |-> FALSE]
         ELSE [data |-> EmptyDict, http_requests |-> 1, uncaught |-> TRUE]

\* one metric widget, app.py:126-138: its label, the value handed to the
\* format and whether that value is the stored result's or the default of .get
Metric(label, met, key) ==
    [label |-> label, value |-> Get(met, key, 0), from_result |-> key \in DOMAIN met]

\* the page a script run renders from the session state, app.py:102-160.
\* A truthy list in metrics makes .get raise at app.py:128 or 137.
Render(kind, err, met, md, c) ==
    IF ~HasPage(kind)
    THEN [header |-> kind, under_construction |-> TRUE, banner |-> None,
          metrics_panel |-> "not rendered", widgets |-> <<>>,
          map_panel |-> "not rendered", marker |-> None]
    ELSE IF TruthyDict(met) /\ IsList(met)
    THEN [header |-> kind, under_construction |-> FALSE,
          banner |-> IF TruthyStr(err) THEN err ELSE None,
          metrics_panel |-> "exception", widgets |-> <<>>,
          map_panel |-> "not rendered", marker |-> None]
    ELSE [header |-> kind, under_construction |-> FALSE,
          banner |-> IF TruthyStr(err) THEN err ELSE None,
          metrics_panel |-> IF TruthyDict(met) THEN "widgets" ELSE "info",
          widgets |-> IF ~TruthyDict(met) THEN <<>>
                      ELSE IF kind = "Green Cover"
                      THEN <<Metric("Average Green Cover", met, "green_cover_percentage"),
                             Metric("Average NDVI", met, "avg_ndvi")>>
                      ELSE <<Metric("Average Surface Temp.", met, "avg_lst_celsius")>>,
          map_panel |-> IF TruthyDict(md) THEN "map" ELSE "info",
          marker |-> IF TruthyDict(md)
                     THEN [lat |-> md.lat, lon |-> md.lon, popup |-> Title(c)]
                     ELSE None]

----------------------------------------------------------------------------
(* State machine *)

\* the page of a run that has not reached the main content: the sidebar only
BlankPage ==
    [header |-> "running", under_construction |-> FALSE, banner |-> None,
     metrics_panel |-> "not rendered", widgets |-> <<>>,
     map_panel |-> "not rendered", marker |-> None]

\* what Streamlit shows when the script raises: the traceback, and nothing of
\* the page below the raising line
ExceptionPage ==
    [header |-> "exception", under_construction |-> FALSE, banner |-> None,
     metrics_panel |-> "not rendered", widgets |-> <<>>,
     map_panel |-> "not rendered", marker |-> None]

\* the page while the run is inside the spinner of app.py:89
SpinnerPage ==
    [header |-> "spinner", under_construction |-> FALSE, banner |-> None,
     metrics_panel |-> "not rendered", widgets |-> <<>>,
     map_panel |-> "not rendered", marker |-> None]

Init ==
    /\ OPENWEATHER_API_KEY \in BOOLEAN
    /\ GOOGLE_CLOUD_PROJECT \in BOOLEAN
    /\ ee_initialized \in (IF GOOGLE_CLOUD_PROJECT THEN BOOLEAN ELSE {FALSE})
    /\ startup_log = IF ee_initialized
                     THEN "Google Earth Engine Initialized Successfully."
                     ELSE "ERROR: Google Earth Engine failed to initialize."
    /\ served = NoExchange
    /\ city = ""
    /\ analysis_type = "Green Cover"
    /\ map_data = None
    /\ metrics = None
    /\ error = None
    /\ page = Render("Green Cover", None, None, None, "")
    /\ pending = None
    /\ data = None
    /\ pc = "done"
    /\ run = [event |-> "load", city_input |-> "", transport |-> "none",
              http_requests |-> 0, uncaught |-> FALSE, error_assigned |-> FALSE,
              had_result |-> FALSE, had_error |-> FALSE]

\* the guard without "submitted": any run with a city in the form fetches
ShouldFetch_ignores_submitted(submitted, city_input) == city_input # ""

\* app.py:82: if submitted and city_input
ShouldFetch(submitted, city_input) == submitted /\ city_input # ""

\* app.py:91: the line the run goes to with the dict or list get_city_data
\* returned.  '"error" in data' tests the keys of a dict and the items of a
\* list.
AfterLine91(d) == IF In("error", d) THEN "l92" ELSE "l95"

\* A widget event starts a run of the script, app.py:51-82, and the run goes
\* to its end (app.py:102-160) when the guard of line 82 is false.  submitted
\* and city_input are the form's values, radio is the selected option.  The
\* run the event found in progress is stopped at the session state access it
\* had reached, with the writes it had made; a run blocked in requests.get is
\* stopped at line 92 or 95 and its answer is dropped.  A truthy list in
\* metrics makes the rendering raise at app.py:128 or 137.
ScriptRun(event, submitted, city_input, radio) ==
    LET fetch == ShouldFetch(submitted, city_input)
        shown == Render(radio, error, metrics, map_data, city)
    IN /\ analysis_type' = radio
       /\ pc' = IF fetch THEN "l83" ELSE "done"
       /\ page' = IF fetch THEN BlankPage ELSE shown
       /\ pending' = None
       /\ data' = None
       /\ served' = NoExchange
       /\ run' = [event |-> event, city_input |-> city_input,
                  transport |-> "none",
                  http_requests |-> 0,
                  uncaught |-> ~fetch /\ shown.metrics_panel = "exception",
                  error_assigned |-> FALSE,
                  had_result |-> TruthyDict(metrics),
                  had_error |-> TruthyStr(error)]
       /\ UNCHANGED <<config, city, map_data, metrics, error>>

\* A press of "Analyze City" with city_input in the form: a run with
\* submitted = True and the radio as it stands.
Submit(city_input) ==
    ScriptRun("submit", TRUE, city_input, analysis_type)

\* A click on another option of the radio: a run with submitted = False, the
\* text input returning the value the form last sent.
SelectAnalysis(kind) ==
    /\ kind # analysis_type
    /\ ScriptRun("select", FALSE, run.city_input, kind)

\* app.py:83
Line83 ==
    /\ pc = "l83"
    /\ city' = run.city_input
    /\ pc' = "l84"
    /\ UNCHANGED <<config, served, analysis_type, map_data, metrics, error,
                   page, pending, data, run>>

\* app.py:84
Line84 ==
    /\ pc = "l84"
    /\ map_data' = None
    /\ pc' = "l85"
    /\ UNCHANGED <<config, served, city, analysis_type, metrics, error,
                   page, pending, data, run>>

\* app.py:85
Line85 ==
    /\ pc = "l85"
    /\ metrics' = None
    /\ pc' = "l86"
    /\ UNCHANGED <<config, served, city, analysis_type, map_data, error,
                   page, pending, data, run>>

\* the fetch block without line 86: the stored error is not cleared
Line86_skipped ==
    /\ pc = "l86"
    /\ pc' = "l89"
    /\ UNCHANGED <<config, served, session, page, pending, data, run>>

\* app.py:86
Line86 ==
    /\ pc = "l86"
    /\ error' = None
    /\ pc' = "l89"
    /\ UNCHANGED <<config, served, city, analysis_type, map_data, metrics,
                   page, pending, data, run>>

\* app.py:89-90 and get_city_data to its requests.get, app.py:21-35: the
\* spinner is shown and get_city_data is called with the stored city and
\* kind.  Without an endpoint it returns its error dict at once; otherwise
\* the run blocks in requests.get, and transport, geo and eo are what the
\* network and the server's collaborators do with the request.
Line89(transport, geo, eo) ==
    /\ pc = "l89"
    /\ LET endpoint == Get(endpoint_map, analysis_type, None)
           exch == Exchange(endpoint.str[1], city, geo, eo)
           r == get_city_data(city, analysis_type, None)
       IN IF TruthyStr(endpoint)
          THEN /\ pending' = Net(transport, exch.response)
               /\ served' = IF transport \in {"ok", "timeout"} THEN exch ELSE NoExchange
               /\ data' = None
               /\ pc' = "l35"
               /\ run' = [run EXCEPT !.transport = transport, !.http_requests = 1]
          ELSE /\ pending' = None
               /\ served' = NoExchange
               /\ data' = r.data
               /\ pc' = AfterLine91(r.data)
               /\ run' = run
    /\ page' = SpinnerPage
    /\ UNCHANGED <<config, session>>

\* requests.get returns or raises in the blocked run, app.py:35-46, and the
\* run evaluates line 91 on what get_city_data returns: '"error" in data'
\* raises TypeError on None.
FetchReturn ==
    /\ pc = "l35"
    /\ LET r == get_city_data(city, analysis_type, pending)
       IN IF r.uncaught \/ r.data = None
          THEN /\ data' = None
               /\ pc' = "done"
               /\ page' = ExceptionPage
               /\ run' = [run EXCEPT !.uncaught = TRUE]
          ELSE /\ data' = r.data
               /\ pc' = AfterLine91(r.data)
               /\ page' = page
               /\ run' = run
    /\ pending' = None
    /\ UNCHANGED <<config, served, session>>

\* app.py:92, and the rendering of app.py:102-160.  data["error"] raises
\* TypeError on a list.
Line92 ==
    /\ pc = "l92"
    /\ IF IsList(data)
       THEN /\ error' = error
            /\ page' = ExceptionPage
            /\ run' = [run EXCEPT !.uncaught = TRUE]
       ELSE /\ error' = data.error
            /\ LET shown == Render(analysis_type, error', metrics, map_data, city)
               IN /\ page' = shown
                  /\ run' = [run EXCEPT !.error_assigned = TRUE,
                                        !.uncaught = shown.metrics_panel = "exception"]
    /\ pc' = "done"
    /\ data' = None
    /\ UNCHANGED <<config, served, city, analysis_type, map_data, metrics, pending>>

\* app.py:95
Line95 ==
    /\ pc = "l95"
    /\ metrics' = data
    /\ pc' = "l96"
    /\ UNCHANGED <<config, served, city, analysis_type, map_data, error,
                   page, pending, data, run>>

\* app.py:96, and the rendering of app.py:102-160.  data.get raises
\* AttributeError on a list.
Line96 ==
    /\ pc = "l96"
    /\ IF IsList(data)
       THEN /\ map_data' = map_data
            /\ page' = ExceptionPage
            /\ run' = [run EXCEPT !.uncaught = TRUE]
       ELSE /\ map_data' = Get(data, "location", None)
            /\ LET shown == Render(analysis_type, error, metrics, map_data', city)
               IN /\ page' = shown
                  /\ run' = [run EXCEPT !.uncaught = shown.metrics_panel = "exception"]
    /\ pc' = "done"
    /\ data' = None
    /\ UNCHANGED <<config, served, city, analysis_type, metrics, error, pending>>

\* A GET /city/{city}/{endpoint} from any HTTP client.
ServerRequest(endpoint, c, geo, eo) ==
    /\ served' = Exchange(endpoint, c, geo, eo)
    /\ UNCHANGED <<config, session, page, pending, data, pc, run>>


\* the dashboard in front of the server
Next ==
    \/ \E c \in Cities : Submit(c)
    \/ \E kind \in AnalysisTypes : SelectAnalysis(kind)
    \/ Line83
    \/ Line84
    \/ Line85
    \/ Line86
    \/ \E t \in Transports, geo \in GeoReplies, eo \in EoStates : Line89(t, geo, eo)
    \/ FetchReturn
    \/ Line92
    \/ Line95
    \/ Line96

Spec == Init /\ [][Next]_vars

\* the server alone, answering any HTTP client
ServerNext ==
    \E e \in Endpoints, c \in Cities, geo \in GeoReplies, eo \in EoStates :
        ServerRequest(e, c, geo, eo)

ServerSpec == Init /\ [][ServerNext]_vars

----------------------------------------------------------------------------
(* Properties *)

\* the run of a press of the button with a non-empty city and a supported
\* kind has ended, and its request failed: connection refused, timeout,
\* non-2xx status or a 200 body that is no JSON object
FailedSubmission ==
    /\ run.event = "submit"
    /\ pc = "done"
    /\ run.city_input # ""
    /\ run.http_requests = 1
    /\ analysis_type \in {"Green Cover", "Heat Map"}
    /\ \/ run.transport \in {"refused", "timeout", "garbled", "null", "empty_list", "list",
                             "error_list"}
       \/ run.transport = "ok" /\ served.response.status_code # 200

\* C1: after a submission whose request failed the session holds a non-empty
\* error, no metrics and no map data, and no exception escaped the script.
C1_FailedSubmissionLeavesOnlyError ==
    FailedSubmission =>
        /\ TruthyStr(error)
        /\ metrics = None
        /\ map_data = None
        /\ ~run.uncaught

\* C2: a submission with an unsupported kind issues no HTTP request and
\* renders the "under construction" placeholder.
C2_UnsupportedKindNeverFetches ==
    (run.event = "submit" /\ analysis_type \in {"Flood Risk", "Air Quality", "Report Card"}) =>
        /\ run.http_requests = 0
        /\ served = NoExchange
        /\ pending = None
        /\ pc # "l35"
        /\ pc = "done" => (page.under_construction /\ page.header = analysis_type)

\* "Flood Risk" submitted with a city while a result was stored
C2_Witness ==
    /\ run.event = "submit"
    /\ pc = "done"
    /\ run.city_input = "paris"
    /\ run.had_result
    /\ analysis_type = "Flood Risk"
    /\ page.under_construction

\* the geocoder was asked and answered 200 with an empty result set
GeocoderFoundNothing ==
    /\ served.response.geo_called
    /\ ~served.geo.raises
    /\ served.geo.status_code = 200
    /\ served.geo.json_ok
    /\ served.geo.data = <<>>

\* C3: on both endpoints a request with an empty city, or one whose geocoder
\* call returns an empty result set, is answered 404, whatever the
\* earth-observation collaborator would return.
C3_EmptyOrUnknownCityIs404 ==
    (served.endpoint # "none" /\ (served.city = "" \/ GeocoderFoundNothing)) =>
        served.response.status_code = 404

\* an unknown city on the heatmap endpoint while imagery would be available
C3_Witness ==
    /\ served.endpoint = "heatmap"
    /\ served.city = "atlantis"
    /\ GeocoderFoundNothing
    /\ served.eo.scene = "clear"
    /\ ee_initialized
    /\ served.response.status_code = 404

\* the filtered image collection was empty when Earth Engine evaluated the
\* expression (the NoImagery condition, the subject of C5)
NoImagery ==
    /\ served.response.ee_called
    /\ ee_initialized
    /\ served.eo.scene = "empty"

\* a collaborator that was called failed otherwise: the geocoder by a
\* transport failure, a non-200 answer or an unparsable body, Earth Engine by
\* being unavailable or not initialized
CollaboratorFailed ==
    \/ /\ served.response.geo_called
       /\ \/ served.geo.raises
          \/ served.geo.status_code # 200
          \/ ~served.geo.json_ok
    \/ /\ served.response.ee_called
       /\ \/ ~ee_initialized
          \/ served.eo.scene = "unavailable"

\* the request found no city or no data: no route for an empty city, an empty
\* geocoder result, or a region mean of None
NotFoundOrNoData ==
    \/ served.city = ""
    \/ GeocoderFoundNothing
    \/ /\ served.response.ee_called
       /\ ee_initialized
       /\ served.eo.scene = "masked"

\* C4: every answer is 200, 404 or 500; every answer but 200 is a {detail}
\* body; no failure of a collaborator is answered 200; 404 is given exactly
\* for city not found or no data (no city, an empty geocoder result, a masked
\* region, an empty image collection) and 500 for every other failure.
C4_FailuresBecomeDetailErrors ==
    served.endpoint # "none" =>
        /\ served.response.status_code \in {200, 404, 500}
        /\ served.response.status_code # 200 =>
               /\ DOMAIN served.response.body = {"detail"}
               /\ TruthyStr(served.response.body.detail)
        /\ (CollaboratorFailed \/ NoImagery) => served.response.status_code \in {404, 500}
        /\ CollaboratorFailed => served.response.status_code = 500
        /\ served.response.status_code = 404 <=> (NotFoundOrNoData \/ NoImagery)

\* C5: when the geocoder succeeds and the filtered collection is empty, the
\* answer is 404.
C5_NoImageryIs404 ==
    (served.endpoint # "none" /\ NoImagery) => served.response.status_code = 404

\* the fields a 200 body of an endpoint carries
FieldsOf(endpoint) ==
    IF endpoint = "green"
    THEN {"city", "location", "avg_ndvi", "green_cover_percentage", "data_source"}
    ELSE {"city", "location", "avg_lst_celsius", "data_source"}

\* C6: in every reachable state the session never holds metrics and an error
\* together and holds metrics exactly when it holds a map location, and a 200
\* answer is given only when geocoding and the region statistic succeeded and
\* is complete.
C6_NoPartialResult ==
    /\ ~(metrics # None /\ error # None)
    /\ metrics # None <=> map_data # None
    /\ metrics # None => TruthyDict(metrics) /\ TruthyDict(map_data)
    /\ (served.endpoint # "none" /\ served.response.status_code = 200) =>
           /\ served.response.geo_called
           /\ ~served.geo.raises
           /\ served.geo.status_code = 200
           /\ served.geo.json_ok
           /\ Len(served.geo.data) > 0
           /\ ee_initialized
           /\ served.eo.scene = "clear"
           /\ DOMAIN served.response.body = FieldsOf(served.endpoint)
           /\ DOMAIN served.response.body.location = {"lat", "lon"}

\* C7 as stated: after any press of the button the stored error is empty or
\* the message of that press.
C7_AnyPressReplacesError ==
    (run.event = "submit" /\ pc = "done") => (error = None \/ run.error_assigned)

\* C7, amended: after a press of the button with a non-empty city whose run
\* went to its end, the stored error is empty or the message of that press.
C7_SubmissionReplacesError ==
    (run.event = "submit" /\ pc = "done" /\ run.city_input # "") =>
        (error = None \/ run.error_assigned)

\* a successful submission cleared the error an earlier one had left
C7_Witness ==
    /\ run.event = "submit"
    /\ pc = "done"
    /\ run.city_input # ""
    /\ run.had_error
    /\ error = None
    /\ metrics # None

\* the handler of an endpoint ran while a required variable was unset
UnconfiguredRequest ==
    /\ served.endpoint # "none"
    /\ served.city # ""
    /\ (~OPENWEATHER_API_KEY \/ ~GOOGLE_CLOUD_PROJECT)

\* C8: with the geocoding key or the cloud project unset, a request is
\* answered 500 without a call to a collaborator.
C8_UnconfiguredFailsFast ==
    UnconfiguredRequest =>
        /\ served.response.status_code = 500
        /\ ~served.response.geo_called
        /\ ~served.response.ee_called

\* C9: selecting another kind issues no HTTP request and leaves the stored
\* city, metrics, map data and error as they were.
C9_SelectingFetchesNothing ==
    [][run'.event = "select" =>
          /\ run'.http_requests = 0
          /\ served' = NoExchange
          /\ pending' = None
          /\ pc' = "done"
          /\ UNCHANGED <<city, metrics, map_data, error>>
          /\ page'.header = analysis_type'
          /\ analysis_type' # analysis_type]_vars

\* another kind selected while the form holds a city and a result is stored
C9_Witness ==
    /\ run.event = "select"
    /\ pc = "done"
    /\ run.city_input = "paris"
    /\ run.had_result
    /\ metrics # None
    /\ analysis_type = "Heat Map"

\* C10: every metric widget on the page shows a field of the stored result,
\* never the default of a field the result lacks.
C10_WidgetsShowFetchedKind ==
    page.metrics_panel = "widgets" =>
        \A i \in 1..Len(page.widgets) : page.widgets[i].from_result

====
